---- MODULE Spec2Model ----
(***************************************************************************)
(* Token-bucket rate limiter and the middleware pipeline of get_app():     *)
(* RequestIDMiddleware (outermost) -> RateLimitMiddleware -> CORS, routing *)
(* and the handler (downstream).                                           *)
(*                                                                         *)
(* Numbers.  The clock of time.monotonic() is read in ticks, TicksPerSecond*)
(* ticks to the second.  A token count is an integer number of units,      *)
(* Unit units to the token, Unit = SecondsPerMinute * TicksPerSecond, so   *)
(* that elapsed * rate = dt * requests_per_minute units exactly.  Float    *)
(* rounding is not modelled.                                               *)
(* Strings are tuples of one-character strings, so that split and strip    *)
(* are computed.  An optional value (Python's None) is <<>> for None and   *)
(* <<v>> for the value v.                                                  *)
(***************************************************************************)
EXTENDS Integers, Sequences, FiniteSets, TLC

\* ------------------------------------------------------------------ bounds
TicksPerSecond == 2
\* the clock stops at MaxTime when is_allowed is called directly, and at
\* MaxPipelineTime when requests go through the middleware
MaxTime == 4
MaxPipelineTime == 1
MaxBurst == 2
MaxUsers == 3

\* ------------------------------------------------------- program constants
SecondsPerMinute == 60
DefaultRequestsPerMinute == 60
DefaultBurstSize == 10
TooManyRequests == 429
InternalServerErrorStatus == 500
NotFoundStatus == 404
OkStatus == 200
CreatedStatus == 201
ConflictStatus == 409

Unit == SecondsPerMinute * TicksPerSecond

\* settings.rate_limit.requests_per_minute, settings.rate_limit.burst_size
RequestsPerMinuteValues == {DefaultRequestsPerMinute, 2 * DefaultRequestsPerMinute}
BurstSizeValues == 0 .. MaxBurst

\* ----------------------------------------------------------------- strings
None == <<>>
Some(v) == <<v>>

Min(a, b) == IF a <= b THEN a ELSE b
Max(a, b) == IF a >= b THEN a ELSE b

\* Python's int(n / d) for d > 0: truncation toward zero
IntTrunc(n, d) == IF n >= 0 THEN n \div d ELSE -((-n) \div d)

\* the least integer >= n / d, for d > 0
Ceil(n, d) == -((-n) \div d)

Digit(d) ==
    CASE d = 0 -> "0" [] d = 1 -> "1" [] d = 2 -> "2" [] d = 3 -> "3"
      [] d = 4 -> "4" [] d = 5 -> "5" [] d = 6 -> "6" [] d = 7 -> "7"
      [] d = 8 -> "8" [] d = 9 -> "9"

RECURSIVE StrNat(_)
StrNat(n) == IF n < 10 THEN <<Digit(n)>> ELSE StrNat(n \div 10) \o <<Digit(n % 10)>>

\* Python's str(n) for an int n
Str(n) == IF n < 0 THEN <<"-">> \o StrNat(-n) ELSE StrNat(n)

IsSpace(c) == c = " "

RECURSIVE LStrip(_)
LStrip(s) == IF s # <<>> /\ IsSpace(Head(s)) THEN LStrip(Tail(s)) ELSE s

RECURSIVE RStrip(_)
RStrip(s) ==
    IF s # <<>> /\ IsSpace(s[Len(s)]) THEN RStrip(SubSeq(s, 1, Len(s) - 1)) ELSE s

\* str.strip()
Strip(s) == RStrip(LStrip(s))

\* str.split(",")[0]: the text before the first comma
RECURSIVE FirstEntry(_)
FirstEntry(s) ==
    IF s = <<>> \/ Head(s) = "," THEN <<>> ELSE <<Head(s)>> \o FirstEntry(Tail(s))

\* ------------------------------------------------------------------- state
VARIABLES
    enabled,              \* settings.rate_limit.enabled
    requests_per_minute,  \* settings.rate_limit.requests_per_minute
    burst_size,           \* InMemoryRateLimiter.burst_size
    now,                  \* the value time.monotonic() returns, in ticks
    buckets,              \* InMemoryRateLimiter._buckets: key -> RateLimitBucket
    last_check,           \* key -> the call and the result of its latest is_allowed
    pc,                   \* slot -> where the request of that slot is in the pipeline
    request,              \* slot -> the inbound request: path, headers, client
    state_request_id,     \* slot -> request.state.request_id
    log_context,          \* task -> the request_id bound in its logging context
    log_token,            \* slot -> what logger.contextualize found bound on entry
    client_ip,            \* slot -> client_ip of RateLimitMiddleware.dispatch
    allowed,              \* slot -> allowed of RateLimitMiddleware.dispatch
    rl_headers,           \* slot -> headers of RateLimitMiddleware.dispatch
    result,               \* slot -> what the await of call_next produced, then the reply
    users,                \* the rows of the table users
    returned,             \* the latest call of the user repository and its outcome
    admissions            \* key -> the times of its admitted checks, where recorded

vars == <<enabled, requests_per_minute, burst_size, now, buckets, last_check, pc,
          request, state_request_id, log_context, log_token, client_ip, allowed,
          rl_headers, result, users, returned, admissions>>

config == <<enabled, requests_per_minute, burst_size>>
limiter == <<buckets, last_check>>
store == <<users, returned>>
pipeline == <<pc, request, state_request_id, log_context, log_token, client_ip, allowed,
              rl_headers, result>>

\* the requests that can be in flight at once, and the one slot used when
\* requests are handled one after the other
Slots == {"A", "B"}
OneAtATime == {"A"}

\* ----------------------------------------------------- InMemoryRateLimiter
\* a bucket that does not keep the time of the check
RateLimitBucket_Epoch(tokens, last_update) == [tokens |-> tokens, last_update |-> 0]

\* RateLimitBucket(tokens=..., last_update=...)
RateLimitBucket(tokens, last_update) == [tokens |-> tokens, last_update |-> last_update]

\* a first request that is not charged
FirstTokens_NotCharged == burst_size * Unit

\* tokens of the bucket a first request creates: self.burst_size - 1
FirstTokens == (burst_size - 1) * Unit

\* a refill that forgets the elapsed time
Refill_NoElapsed(bucket, t) == Min(burst_size * Unit, bucket.tokens)

\* min(self.burst_size, bucket.tokens + elapsed * self.rate), elapsed = t - last_update
Refill(bucket, t) ==
    Min(burst_size * Unit, bucket.tokens + (t - bucket.last_update) * requests_per_minute)

\* a Retry-After that is rounded down
RetryAfter_Floor(tokens) == IntTrunc(Unit - tokens, TicksPerSecond * requests_per_minute)

\* int((1 - bucket.tokens) / self.rate) + 1
RetryAfter(tokens) == IntTrunc(Unit - tokens, TicksPerSecond * requests_per_minute) + 1

\* headers whose remaining count is not held at 0
GetHeaders_NotClamped(remaining) ==
    ("X-RateLimit-Limit" :> Str(burst_size))
        @@ ("X-RateLimit-Remaining" :> Str(IntTrunc(remaining, Unit)))

\* _get_headers(remaining)
GetHeaders(remaining) ==
    ("X-RateLimit-Limit" :> Str(burst_size))
        @@ ("X-RateLimit-Remaining" :> Str(Max(0, IntTrunc(remaining, Unit))))

\* bucket.tokens >= 1
HasToken(tokens) == tokens >= Unit

\* a rejection that takes a token all the same
RejectedBucket_Debited(tokens, t) == RateLimitBucket(tokens - Unit, t)

\* the bucket a rejected check leaves: the refilled tokens of line 55 and the
\* time of line 56, with nothing taken before the return of line 66
RejectedBucket(tokens, t) == RateLimitBucket(tokens, t)

\* is_allowed(key) called when the clock reads t: the verdict, the headers and
\* the bucket of key afterwards; refilled is bucket.tokens after line 55, and
\* for an unseen key the burst_size that line 46 takes 1 from
IsAllowed(key, t) ==
    IF key \notin DOMAIN buckets
    THEN [allowed |-> TRUE,
          headers |-> GetHeaders(FirstTokens),
          bucket |-> RateLimitBucket(FirstTokens, t),
          refilled |-> FirstTokens + Unit]
    ELSE LET tokens == Refill(buckets[key], t) IN
         IF HasToken(tokens)
         THEN [allowed |-> TRUE,
               headers |-> GetHeaders(tokens - Unit),
               bucket |-> RateLimitBucket(tokens - Unit, t),
               refilled |-> tokens]
         ELSE [allowed |-> FALSE,
               headers |-> GetHeaders(tokens) @@ ("Retry-After" :> Str(RetryAfter(tokens))),
               bucket |-> RejectedBucket(tokens, t),
               refilled |-> tokens]

\* ------------------------------------------------------------- the requests
ClientA == <<"1", ".", "2", ".", "3", ".", "4">>
ClientB == <<"9", ".", "9", ".", "9", ".", "9">>
ForwardedB ==
    <<"9", ".", "9", ".", "9", ".", "9", ",", " ", "1", "0", ".", "0", ".", "0", ".", "1">>
Unknown == <<"u", "n", "k", "n", "o", "w", "n">>

\* request.headers of the requests sent: the client-address headers ...
AddressHeaders ==
    { <<>>, ("X-Forwarded-For" :> ForwardedB) @@ ("X-Real-IP" :> ClientA) }

\* ... and the X-Request-ID header: absent, empty, or a value
RequestIdHeaders == { <<>>, ("X-Request-ID" :> <<>>), ("X-Request-ID" :> <<"r", "1">>) }

\* request.client: None, or an address whose host is ClientA
Clients == { Some([host |-> ClientA]) }

\* request.url.path
HealthPath == <<"/", "h", "e", "a", "l", "t", "h">>
V1HealthPath == <<"/", "v", "1", "/", "h", "e", "a", "l", "t", "h">>
UsersPath == <<"/", "v", "1", "/", "u", "s", "e", "r", "s">>
Paths == { HealthPath, V1HealthPath, UsersPath }

Requests ==
    { [path |-> p, headers |-> a @@ r, client |-> c] :
        p \in Paths, a \in AddressHeaders, r \in RequestIdHeaders, c \in Clients }

\* the keys is_allowed is called with directly
Keys == {ClientA, ClientB}

\* Requests that differ in what tells the client address.  A header value has
\* no leading or trailing whitespace (the HTTP parser strips it); an entry of a
\* list value can have.
ForwardedValues ==
    { <<>>,
      ForwardedB,
      <<"9", ".", "9", ".", "9", ".", "9", " ", ",", "1", ".", "2", ".", "3", ".", "4">>,
      <<",", "1", ".", "2", ".", "3", ".", "4">>,
      ClientB }
RealIpValues == { <<>>, ClientA, ClientB }

OptionalHeader(name, values) == { <<>> } \cup { name :> v : v \in values }

AddressRequests ==
    { [path |-> UsersPath, headers |-> f @@ r, client |-> c] :
        f \in OptionalHeader("X-Forwarded-For", ForwardedValues),
        r \in OptionalHeader("X-Real-IP", RealIpValues),
        c \in { None, Some([host |-> ClientA]) } }

\* the canonical UUID strings uuid.uuid4() can return
Uuids == { <<"u", "1">>, <<"u", "2">> }

\* request.headers.get(name): None when the header is absent
HeaderGet(headers, name) == IF name \in DOMAIN headers THEN Some(headers[name]) ELSE None

\* a truth value that takes "" for a value
Truthy_NotNone(opt) == opt # None

\* truth value of an optional string: neither None nor ""
Truthy(opt) == opt # None /\ opt[1] # <<>>

\* an empty allowlist
EXCLUDED_PATHS_Empty == {}

\* an allowlist that misses /health
EXCLUDED_PATHS_OnlyV1 == { V1HealthPath }

\* RateLimitMiddleware.EXCLUDED_PATHS
EXCLUDED_PATHS == { HealthPath, V1HealthPath }

REQUEST_ID_HEADER == "X-Request-ID"

\* a key derivation that looks at X-Real-IP before X-Forwarded-For
GetClientIp_RealIpFirst(req) ==
    LET forwarded == HeaderGet(req.headers, "X-Forwarded-For")
        real_ip == HeaderGet(req.headers, "X-Real-IP")
    IN  IF Truthy(real_ip) THEN Strip(real_ip[1])
        ELSE IF Truthy(forwarded) THEN Strip(FirstEntry(forwarded[1]))
        ELSE IF req.client # None THEN req.client[1].host
        ELSE Unknown

\* RateLimitMiddleware._get_client_ip(request)
GetClientIp(req) ==
    LET forwarded == HeaderGet(req.headers, "X-Forwarded-For")
        real_ip == HeaderGet(req.headers, "X-Real-IP")
    IN  IF Truthy(forwarded) THEN Strip(FirstEntry(forwarded[1]))
        ELSE IF Truthy(real_ip) THEN Strip(real_ip[1])
        ELSE IF req.client # None THEN req.client[1].host
        ELSE Unknown

\* a request state in which no request_id was stored
GetRequestId_Unset(s) == None

\* getattr(request.state, "request_id", None)
GetRequestId(s) == state_request_id[s]

\* a rejection that is raised instead of returned
RateLimitResponse_Raised(s, headers) == [kind |-> "exception"]

\* a rejection that loses the Retry-After header
RateLimitResponse_NoRetryAfter(s, headers) ==
    [kind |-> "response",
     by |-> "RateLimitMiddleware",
     status |-> TooManyRequests,
     headers |-> [h \in DOMAIN headers \ {"Retry-After"} |-> headers[h]],
     body |-> [error |-> "RateLimitExceededError",
               detail |-> "Too many requests. Please retry later.",
               request_id |-> GetRequestId(s)]]

\* A response: kind, status, headers, body, and by, the code that built it.
\* the JSONResponse RateLimitMiddleware.dispatch returns for a rejected request
RateLimitResponse(s, headers) ==
    [kind |-> "response",
     by |-> "RateLimitMiddleware",
     status |-> TooManyRequests,
     headers |-> headers,
     body |-> [error |-> "RateLimitExceededError",
               detail |-> "Too many requests. Please retry later.",
               request_id |-> GetRequestId(s)]]

\* _build_error_response(error, detail, request_id): request_id only when truthy
BuildErrorResponse(error, detail, request_id) ==
    IF Truthy(request_id)
    THEN [error |-> error, detail |-> detail, request_id |-> request_id[1]]
    ELSE [error |-> error, detail |-> detail]

\* app_exception_handler for a NotFoundError raised by the handler
AppErrorResponse(s) ==
    [kind |-> "response",
     by |-> "app_exception_handler",
     status |-> NotFoundStatus,
     headers |-> <<>>,
     body |-> BuildErrorResponse("NotFoundError", "Resource not found", GetRequestId(s))]

\* generic_exception_handler, which add_exception_handler(Exception, ...) makes
\* the handler of the server-error layer outside every middleware
GenericExceptionResponse(s) ==
    [kind |-> "response",
     by |-> "generic_exception_handler",
     status |-> InternalServerErrorStatus,
     headers |-> <<>>,
     body |-> BuildErrorResponse("InternalServerError", "An unexpected error occurred",
                                 GetRequestId(s))]

\* the response of a handler that returns
OkResponse ==
    [kind |-> "response", by |-> "handler", status |-> OkStatus, headers |-> <<>>,
     body |-> <<>>]

\* an exception travelling up through the awaits of call_next
Raised == [kind |-> "exception"]
NoResult == [kind |-> "none"]

\* the request was aborted: its task was cancelled and nothing is sent
Cancelled == [kind |-> "cancelled"]

\* response.headers[key] = value for every item of headers
SetHeaders(response, headers) == [response EXCEPT !.headers = headers @@ @]

\* ------------------------------------------------------ the middleware stack
\* a registration that keeps the order of the calls
AddMiddleware_Append(stack, cls) == Append(stack, cls)

\* app.add_middleware(cls): "last added runs first on request", the class goes
\* in front of those added before
AddMiddleware(stack, cls) == <<cls>> \o stack

\* the middleware of get_app() after its add_middleware calls, outermost first
UserMiddleware ==
    LET cors == AddMiddleware(<<>>, "CORSMiddleware")
        rate == IF enabled THEN AddMiddleware(cors, "RateLimitMiddleware") ELSE cors
    IN  AddMiddleware(rate, "RequestIDMiddleware")

Position(cls) == CHOOSE i \in 1 .. Len(UserMiddleware) : UserMiddleware[i] = cls

\* what call_next of cls runs: the next middleware inward, or the router
Inner(cls) ==
    IF Position(cls) < Len(UserMiddleware) THEN UserMiddleware[Position(cls) + 1]
    ELSE "router"

\* who receives what cls returns or raises: the next middleware outward, or the
\* server-error layer
Outer(cls) ==
    IF Position(cls) > 1 THEN UserMiddleware[Position(cls) - 1] ELSE "server"

\* the position of a request that enters cls, and of one that comes back to it;
\* CORS, routing and the handler are one step, downstream
Entry(cls) == IF cls = "RateLimitMiddleware" THEN "rate_limit" ELSE "downstream"
Exit(cls) ==
    CASE cls = "RateLimitMiddleware" -> "rate_limit_exit"
      [] cls = "RequestIDMiddleware" -> "request_id_exit"
      [] OTHER -> "done"

\* -------------------------------------------------------------------- Init
\* get_app() has run with the settings; no request has arrived
InitWith(bursts) ==
    /\ enabled \in BOOLEAN
    /\ requests_per_minute \in RequestsPerMinuteValues
    /\ burst_size \in bursts
    /\ now = 0
    /\ buckets = <<>>
    /\ last_check = <<>>
    /\ pc = [s \in Slots |-> "idle"]
    /\ request = [s \in Slots |-> None]
    /\ state_request_id = [s \in Slots |-> None]
    /\ log_context = [s \in Slots |-> None]
    /\ log_token = [s \in Slots |-> None]
    /\ client_ip = [s \in Slots |-> None]
    /\ allowed = [s \in Slots |-> None]
    /\ rl_headers = [s \in Slots |-> None]
    /\ result = [s \in Slots |-> NoResult]
    /\ users = {}
    /\ returned = None
    /\ admissions = <<>>

Init == InitWith(BurstSizeValues)

\* ----------------------------------------------------------------- actions
\* time passes: time.monotonic() never goes back
Tick(limit) ==
    /\ \E dt \in 1 .. (limit - now) : now' = now + dt
    /\ UNCHANGED <<config, store, admissions, limiter, pipeline>>

\* the record kept of the latest call of is_allowed(key), made at time t, that
\* returned r: n counts the calls so far when all were made at the instant the
\* bucket was created (0 once one was made later); prev is the call before
CheckRecord(key, t, r) ==
    LET fresh == key \notin DOMAIN last_check
        n == IF fresh THEN 1
             ELSE IF last_check[key].n > 0 /\ t = buckets[key].last_update
                  THEN Min(last_check[key].n + 1, burst_size + 2)
                  ELSE 0
    IN  [n |-> n,
         allowed |-> r.allowed,
         headers |-> r.headers,
         refilled |-> r.refilled,
         prev |-> IF fresh THEN None
                  ELSE Some([time |-> buckets[key].last_update,
                             allowed |-> last_check[key].allowed])]

\* a limiter that keeps one bucket for all keys
Charge_OneBucket(key, r) ==
    /\ buckets' = [k \in DOMAIN buckets \cup {key} |-> r.bucket]
    /\ last_check' = (key :> CheckRecord(key, now, r)) @@ last_check

\* the writes of is_allowed(key) when it returns r: self._buckets[key] and the record
Charge(key, r) ==
    /\ buckets' = (key :> r.bucket) @@ buckets
    /\ last_check' = (key :> CheckRecord(key, now, r)) @@ last_check

\* limiter.is_allowed(key), called directly
IsAllowedCall(key) ==
    /\ enabled
    /\ Charge(key, IsAllowed(key, now))
    /\ UNCHANGED <<config, store, admissions, now, pipeline>>

\* one logging context shared by every task
ContextOf_Shared(s) == CHOOSE t \in Slots : TRUE

\* the logging context the code of slot s reads and writes: loguru keeps it in a
\* context variable, of which the task of each request has its own copy
ContextOf(s) == s

\* logger.contextualize(request_id=request_id), entering the with block: the
\* id is bound over whatever the context held
Contextualize(context, request_id) == Some(request_id)

\* a with block that leaves the binding in place
ContextReset_Leaks(context, token) == context

\* logger.contextualize, leaving the with block by return or by exception: the
\* context is put back to what entry found
ContextReset(context, token) == token

\* the request_id a log record emitted by the code of slot s is given
LogExtra(s) == log_context[ContextOf(s)]

\* limiter.is_allowed(key), called directly, with the time of the call kept
\* when the check was admitted
IsAllowedRecorded(key) ==
    /\ enabled
    /\ LET r == IsAllowed(key, now)
           before == IF key \in DOMAIN admissions THEN admissions[key] ELSE <<>>
       IN  /\ Charge(key, r)
           /\ admissions' = (key :> IF r.allowed THEN Append(before, now) ELSE before)
                                @@ admissions
    /\ UNCHANGED <<config, store, now, pipeline>>

\* a request id that is always generated
RequestId_AlwaysFresh(req, uuid) == uuid

\* request_id of RequestIDMiddleware.dispatch (line 24): the inbound header or a UUID
RequestId(req, uuid) ==
    LET inbound == HeaderGet(req.headers, REQUEST_ID_HEADER)
    IN  IF Truthy(inbound) THEN inbound[1] ELSE uuid

\* RequestIDMiddleware.dispatch up to the await of call_next (lines 24-31), for a
\* request of the set reqs
RequestIDDispatch(s, reqs) ==
    /\ pc[s] = "idle"
    /\ \E req \in reqs, uuid \in Uuids :
         /\ request' = [request EXCEPT ![s] = Some(req)]
         /\ state_request_id' = [state_request_id EXCEPT ![s] = Some(RequestId(req, uuid))]
         /\ log_token' = [log_token EXCEPT ![s] = log_context[ContextOf(s)]]
         /\ log_context' = [log_context EXCEPT
                               ![ContextOf(s)] = Contextualize(@, RequestId(req, uuid))]
    /\ pc' = [pc EXCEPT ![s] = Entry(Inner("RequestIDMiddleware"))]
    /\ UNCHANGED <<config, store, admissions, now, limiter, client_ip, allowed, rl_headers, result>>

\* RateLimitMiddleware.dispatch up to the await of call_next or the 429 (lines 88-107)
RateLimitDispatch(s) ==
    /\ pc[s] = "rate_limit"
    /\ LET req == request[s][1] IN
       IF req.path \in EXCLUDED_PATHS
       THEN /\ pc' = [pc EXCEPT ![s] = Entry(Inner("RateLimitMiddleware"))]
            /\ UNCHANGED <<limiter, client_ip, allowed, rl_headers, result>>
       ELSE LET key == GetClientIp(req)
                r == IsAllowed(key, now)
            IN  /\ client_ip' = [client_ip EXCEPT ![s] = Some(key)]
                /\ Charge(key, r)
                /\ allowed' = [allowed EXCEPT ![s] = Some(r.allowed)]
                /\ rl_headers' = [rl_headers EXCEPT ![s] = Some(r.headers)]
                /\ IF ~r.allowed
                   THEN /\ result' = [result EXCEPT ![s] = RateLimitResponse(s, r.headers)]
                        /\ pc' = [pc EXCEPT ![s] = Exit(Outer("RateLimitMiddleware"))]
                   ELSE /\ pc' = [pc EXCEPT ![s] = Entry(Inner("RateLimitMiddleware"))]
                        /\ UNCHANGED result
    /\ UNCHANGED <<config, store, admissions,
                   now, request, state_request_id, log_context, log_token>>

\* what the handler does: it returns, raises an AppError (which the handler of
\* AppError turns into a response), or raises an exception no handler inside
\* the middleware catches
Outcomes(s) == {OkResponse, AppErrorResponse(s), Raised}

\* what is inside the middleware: CORS, routing, the handler, the exception handlers
Downstream(s) ==
    /\ pc[s] = "downstream"
    /\ \E outcome \in Outcomes(s) : result' = [result EXCEPT ![s] = outcome]
    /\ pc' = [pc EXCEPT ![s] = Exit(Outer("CORSMiddleware"))]
    /\ UNCHANGED <<config, store, admissions,
                   now, limiter, request, state_request_id, log_context, log_token,
                   client_ip, allowed, rl_headers>>

\* what RateLimitMiddleware.dispatch returns or raises after the await of
\* call_next (lines 89, 107-113)
RateLimitResult(s) ==
    IF result[s].kind = "exception" \/ allowed[s] = None THEN result[s]
    ELSE SetHeaders(result[s], rl_headers[s][1])

RateLimitExit(s) ==
    /\ pc[s] = "rate_limit_exit"
    /\ result' = [result EXCEPT ![s] = RateLimitResult(s)]
    /\ pc' = [pc EXCEPT ![s] = Exit(Outer("RateLimitMiddleware"))]
    /\ UNCHANGED <<config, store, admissions,
                   now, limiter, request, state_request_id, log_context, log_token,
                   client_ip, allowed, rl_headers>>

\* the response RequestIDMiddleware.dispatch returns (lines 34-35)
RequestIDResult(s) == SetHeaders(result[s], REQUEST_ID_HEADER :> state_request_id[s][1])

\* RequestIDMiddleware.dispatch after the await of call_next (lines 30-35): the
\* with block is left; then the header is set and the response returned, or,
\* when the await raised, the exception leaves dispatch
RequestIDExit(s) ==
    /\ pc[s] = "request_id_exit"
    /\ log_context' = [log_context EXCEPT ![ContextOf(s)] = ContextReset(@, log_token[s])]
    /\ log_token' = [log_token EXCEPT ![s] = None]
    /\ IF result[s].kind = "exception"
       THEN /\ pc' = [pc EXCEPT ![s] = "server_error"]
            /\ UNCHANGED result
       ELSE /\ result' = [result EXCEPT ![s] = RequestIDResult(s)]
            /\ pc' = [pc EXCEPT ![s] = "done"]
    /\ UNCHANGED <<config, store, admissions,
                   now, limiter, request, state_request_id, client_ip, allowed,
                   rl_headers>>

\* the server-error layer, outside every middleware added by get_app(), answers
\* an exception that left the middleware with the handler registered for Exception
ServerError(s) ==
    /\ pc[s] = "server_error"
    /\ result' = [result EXCEPT ![s] = GenericExceptionResponse(s)]
    /\ pc' = [pc EXCEPT ![s] = "done"]
    /\ UNCHANGED <<config, store, admissions,
                   now, limiter, request, state_request_id, log_context, log_token,
                   client_ip, allowed, rl_headers>>

\* an abort that gives the token of an admitted request back
Cancel_Refunds(s) ==
    /\ pc[s] \in {"rate_limit", "downstream", "rate_limit_exit", "request_id_exit"}
    /\ log_context' = [log_context EXCEPT ![ContextOf(s)] = ContextReset(@, log_token[s])]
    /\ log_token' = [log_token EXCEPT ![s] = None]
    /\ result' = [result EXCEPT ![s] = Cancelled]
    /\ pc' = [pc EXCEPT ![s] = "cancelled"]
    /\ buckets' = IF allowed[s] = Some(TRUE)
                  THEN [buckets EXCEPT ![client_ip[s][1]].tokens = @ + Unit]
                  ELSE buckets
    /\ UNCHANGED <<config, store, admissions,
                   now, last_check, request, state_request_id, client_ip, allowed,
                   rl_headers>>

\* the request of slot s is aborted while its task waits in call_next: the
\* CancelledError raised at the await unwinds RateLimitMiddleware.dispatch and
\* the with block of RequestIDMiddleware.dispatch, and no response is produced;
\* the limiter is not touched
Cancel(s) ==
    /\ pc[s] \in {"rate_limit", "downstream", "rate_limit_exit", "request_id_exit"}
    /\ log_context' = [log_context EXCEPT ![ContextOf(s)] = ContextReset(@, log_token[s])]
    /\ log_token' = [log_token EXCEPT ![s] = None]
    /\ result' = [result EXCEPT ![s] = Cancelled]
    /\ pc' = [pc EXCEPT ![s] = "cancelled"]
    /\ UNCHANGED <<config, store, admissions,
                   now, limiter, request, state_request_id, client_ip, allowed,
                   rl_headers>>

\* the response is sent, or the aborted request given up, and the request and
\* its state are dropped
Complete(s) ==
    /\ pc[s] \in {"done", "cancelled"}
    /\ pc' = [pc EXCEPT ![s] = "idle"]
    /\ request' = [request EXCEPT ![s] = None]
    /\ state_request_id' = [state_request_id EXCEPT ![s] = None]
    /\ client_ip' = [client_ip EXCEPT ![s] = None]
    /\ allowed' = [allowed EXCEPT ![s] = None]
    /\ rl_headers' = [rl_headers EXCEPT ![s] = None]
    /\ result' = [result EXCEPT ![s] = NoResult]
    /\ UNCHANGED <<config, store, admissions, now, limiter, log_context, log_token>>

\* the steps of a request once it is in the pipeline
Handle(s) ==
    \/ RateLimitDispatch(s)
    \/ Downstream(s)
    \/ RateLimitExit(s)
    \/ RequestIDExit(s)
    \/ ServerError(s)
    \/ Complete(s)

\* ---------------------------------------------------------- specifications
\* requests through the application get_app() assembles, one after the other
Next ==
    \/ Tick(MaxPipelineTime)
    \/ \E s \in OneAtATime : RequestIDDispatch(s, Requests)
    \/ \E s \in OneAtATime : Handle(s)

Spec == Init /\ [][Next]_vars

\* the limiter alone, as a caller of is_allowed sees it
InitLimiter == InitWith(BurstSizeValues \cup {DefaultBurstSize}) /\ enabled

NextLimiter ==
    \/ Tick(MaxTime)
    \/ \E key \in Keys : IsAllowedCall(key)

SpecLimiter == InitLimiter /\ [][NextLimiter]_vars

\* the limiter alone, with the admissions of every key recorded
InitWindow == InitWith(BurstSizeValues) /\ enabled

NextWindow ==
    \/ Tick(MaxTime)
    \/ \E key \in Keys : IsAllowedRecorded(key)

SpecWindow == InitWindow /\ [][NextWindow]_vars

\* one key that keeps calling is_allowed while the clock, which never stops
\* before MaxTime, advances
InitHammer == InitWith(BurstSizeValues) /\ enabled

NextHammer ==
    \/ Tick(MaxTime)
    \/ IsAllowedCall(ClientA)

SpecHammer ==
    /\ InitHammer
    /\ [][NextHammer]_vars
    /\ WF_vars(Tick(MaxTime))
    /\ WF_vars(IsAllowedCall(ClientA))

\* two requests in flight, their steps interleaved at every await, each of which
\* may be aborted; both from the peer 1.2.3.4, default rate, no clock
ConcurrentRequests ==
    { [path |-> p, headers |-> r, client |-> Some([host |-> ClientA])] :
        p \in {HealthPath, UsersPath},
        r \in OptionalHeader("X-Request-ID", { <<>>, <<"r", "1">> }) }

InitConcurrent ==
    /\ InitWith(BurstSizeValues)
    /\ enabled
    /\ requests_per_minute = DefaultRequestsPerMinute

NextConcurrent ==
    \/ \E s \in Slots : RequestIDDispatch(s, ConcurrentRequests)
    \/ \E s \in Slots : Handle(s)
    \/ \E s \in Slots : Cancel(s)

SpecConcurrent == InitConcurrent /\ [][NextConcurrent]_vars

\* requests of every address shape through the application, default rate, no clock
InitAddress ==
    /\ InitWith({1})
    /\ enabled
    /\ requests_per_minute = DefaultRequestsPerMinute

NextAddress ==
    \/ \E s \in OneAtATime : RequestIDDispatch(s, AddressRequests)
    \/ \E s \in OneAtATime : Handle(s)

SpecAddress == InitAddress /\ [][NextAddress]_vars

\* ------------------------------------------------------------------- users
\* str.lower() and the letters it changes
LowerChar(c) == CASE c = "A" -> "a" [] c = "B" -> "b" [] c = "X" -> "x" [] OTHER -> c
StrLower(v) == [i \in 1 .. Len(v) |-> LowerChar(v[i])]

\* the addresses a client sends: local part, "@", domain
LocalParts == { <<"a">>, <<"A">>, <<"b">>, <<"B">> }
Domains == { <<"x">>, <<"X">> }
Emails == { l \o <<"@">> \o d : l \in LocalParts, d \in Domains }

\* the value of an EmailStr field: validation keeps the local part as written
\* and lower-cases the domain
EmailStr(v) ==
    LET at == CHOOSE i \in 1 .. Len(v) : v[i] = "@"
    IN  SubSeq(v, 1, at) \o StrLower(SubSeq(v, at + 1, Len(v)))

\* UserCreateDTO(email=...)
UserCreateDTO(email) == [email |-> EmailStr(email)]

\* the id the column default uuid.uuid4 gives a new row
NewUserId == Cardinality(users) + 1

\* UserRepository.get_by_email(email): the row whose email column equals
\* email.lower(), or None; the unique index leaves at most one
GetByEmail(email) ==
    LET rows == { u \in users : u.email = StrLower(email) }
    IN  IF rows = {} THEN None ELSE Some(CHOOSE u \in rows : TRUE)

\* UserService.get_user_by_email(email)
GetUserByEmail(email) == GetByEmail(email)

\* BaseRepository.save(data) for a UserCreateDTO: the row is added and flushed;
\* the unique index on email rejects an address that is already in the table
Save(data) ==
    /\ Cardinality(users) < MaxUsers
    /\ IF \E u \in users : u.email = data.email
       THEN /\ returned' = [op |-> "save", arg |-> data.email, raised |-> TRUE, value |-> None]
            /\ UNCHANGED users
       ELSE LET row == [id |-> NewUserId, email |-> data.email] IN
            /\ users' = users \cup {row}
            /\ returned' = [op |-> "save", arg |-> data.email, raised |-> FALSE,
                            value |-> Some(row)]
    /\ UNCHANGED <<config, now, limiter, pipeline, admissions>>

\* a call of UserService.get_user_by_email(email)
Lookup(email) ==
    /\ returned' = [op |-> "get_user_by_email", arg |-> email, raised |-> FALSE,
                    value |-> GetUserByEmail(email)]
    /\ UNCHANGED <<config, now, limiter, pipeline, users, admissions>>

\* what service.create_user(data) can do in the handler create_user: the row
\* is flushed, the unique index on email raises an IntegrityError whose orig
\* has the driver's UniqueViolationError as cause, or an IntegrityError of
\* another origin or another exception is raised
IntegrityError(orig) == [kind |-> "IntegrityError", orig |-> orig]
ServiceOutcomes(data) ==
    IF \E u \in users : u.email = data.email
    THEN { IntegrityError(Some([cause |-> "UniqueViolationError"])) }
    ELSE { [kind |-> "ok", row |-> [id |-> NewUserId, email |-> data.email]],
           IntegrityError(Some([cause |-> "ForeignKeyViolationError"])),
           IntegrityError(None),
           [kind |-> "RuntimeError"] }

\* a handler that finds no cause in any error
Cause_Missing(exc) == None

\* cause = exc.orig.__cause__ if exc.orig else None
Cause(exc) == IF exc.orig # None THEN Some(exc.orig[1].cause) ELSE None

\* the number of calls of the session method name in calls
Count(calls, name) == Cardinality({ i \in 1 .. Len(calls) : calls[i] = name })

\* the handler create_user, given what service.create_user did: the calls it
\* makes on the session, and the status it returns or raises
CreateUserHandler(outcome) ==
    IF outcome.kind = "IntegrityError"
    THEN [calls |-> <<"rollback">>,
          raised |-> TRUE,
          status |-> IF Cause(outcome) = Some("UniqueViolationError")
                     THEN Some(ConflictStatus)
                     ELSE Some(InternalServerErrorStatus)]
    ELSE IF outcome.kind = "ok"
    THEN [calls |-> <<"commit">>, raised |-> FALSE, status |-> Some(CreatedStatus)]
    ELSE [calls |-> <<>>, raised |-> TRUE, status |-> None]

\* POST /users: the handler runs; the row is in the table once the session
\* committed, and closing the session drops whatever was not committed
CreateUser(data) ==
    /\ Cardinality(users) < MaxUsers
    /\ \E outcome \in ServiceOutcomes(data) :
         LET r == CreateUserHandler(outcome) IN
         /\ users' = IF outcome.kind = "ok" /\ Count(r.calls, "commit") > 0
                         /\ Count(r.calls, "rollback") = 0
                      THEN users \cup {outcome.row}
                      ELSE users
         /\ returned' = [op |-> "create_user", arg |-> data.email, raised |-> r.raised,
                         value |-> IF r.raised THEN None ELSE Some(outcome.row),
                         outcome |-> outcome, calls |-> r.calls, status |-> r.status]
    /\ UNCHANGED <<config, now, limiter, pipeline, admissions>>

\* users are saved, looked up by email and created through the router
InitUsers ==
    /\ InitWith({DefaultBurstSize})
    /\ enabled
    /\ requests_per_minute = DefaultRequestsPerMinute

NextUsers ==
    \/ \E email \in Emails : Save(UserCreateDTO(email))
    \/ \E email \in Emails : Lookup(email)
    \/ \E email \in Emails : CreateUser(UserCreateDTO(email))

SpecUsers == InitUsers /\ [][NextUsers]_vars

\* ------------------------------------------------------------------ claims
\* the integers a header value can spell, and int(value)
Numbers == (0 - DefaultBurstSize) .. (2 * DefaultBurstSize)
IntOf(value) == CHOOSE k \in Numbers : Str(k) = value

Remaining(headers) == headers["X-RateLimit-Remaining"]
HasRetryAfter(headers) == "Retry-After" \in DOMAIN headers

\* at least 1 / refillRate seconds lie between the ticks t0 and t1
WaitedOneToken(t0, t1) == (t1 - t0) * requests_per_minute >= Unit

\* C1: with burst_size >= 1, the k-th of the checks made for a key at the instant
\* its bucket was created, k <= burst_size, is admitted and reports
\* X-RateLimit-Remaining = burst_size - k.
C1_BurstAdmitted ==
    \A key \in DOMAIN last_check :
        LET c == last_check[key] IN
        (burst_size >= 1 /\ c.n >= 1 /\ c.n <= burst_size)
            => c.allowed /\ Remaining(c.headers) = Str(burst_size - c.n)

\* the tenth check of an immediate burst with burst_size = 10 has been made
C1_Witness ==
    \E key \in DOMAIN last_check :
        /\ burst_size = DefaultBurstSize
        /\ last_check[key].n = burst_size
        /\ Remaining(last_check[key].headers) = <<"0">>

\* C2: the (burst_size + 1)-th check made for a key at the instant its bucket
\* was created is rejected and carries Retry-After >= 1.
C2_BurstExhausted ==
    \A key \in DOMAIN last_check :
        LET c == last_check[key] IN
        c.n = burst_size + 1
            => /\ ~c.allowed
               /\ HasRetryAfter(c.headers)
               /\ IntOf(c.headers["Retry-After"]) >= 1

\* C2 where the burst is not empty: burst_size >= 1
C2_BurstExhaustedPositive ==
    \A key \in DOMAIN last_check :
        LET c == last_check[key] IN
        (burst_size >= 1 /\ c.n = burst_size + 1)
            => /\ ~c.allowed
               /\ HasRetryAfter(c.headers)
               /\ IntOf(c.headers["Retry-After"]) >= 1

\* C3 as claimed: a check made at least 1 / refillRate seconds after a rejection
\* of the same key, with no check of that key in between, is admitted.
C3_AdmittedAfterWaitAnyBurst ==
    \A key \in DOMAIN last_check :
        LET c == last_check[key] IN
        (c.prev # None /\ ~c.prev[1].allowed
                /\ WaitedOneToken(c.prev[1].time, buckets[key].last_update))
            => c.allowed

\* C3, amended: when burst_size >= 1, a check made at least 1 / refillRate seconds
\* after a rejection of the same key, with no check of that key in between, is
\* admitted.
C3_AdmittedAfterWait ==
    \A key \in DOMAIN last_check :
        LET c == last_check[key] IN
        (burst_size >= 1 /\ c.prev # None /\ ~c.prev[1].allowed
                /\ WaitedOneToken(c.prev[1].time, buckets[key].last_update))
            => c.allowed

\* a key was rejected, waited exactly 1 / refillRate seconds and was admitted
C3_Witness ==
    \E key \in DOMAIN last_check :
        LET c == last_check[key] IN
        /\ burst_size >= 1
        /\ c.prev # None
        /\ ~c.prev[1].allowed
        /\ (buckets[key].last_update - c.prev[1].time) * requests_per_minute = Unit
        /\ c.allowed

\* C4: every bucket of the map holds 0 <= tokens <= burst_size.
C4_TokensInRange ==
    \A key \in DOMAIN buckets :
        /\ 0 <= buckets[key].tokens
        /\ buckets[key].tokens <= burst_size * Unit

\* the upper half of C4: no idle time lifts a bucket above burst_size
C4_TokensAtMostBurst ==
    \A key \in DOMAIN buckets : buckets[key].tokens <= burst_size * Unit

\* C8: a rejection carries Retry-After = ceil((1 - tokens) / refillRate), tokens
\* being the refilled count of the rejected check; with requests_per_minute = 60
\* and burst_size = 10 the 11th check of an immediate burst carries Retry-After = 1.
C8_RetryAfterIsCeil ==
    \A key \in DOMAIN last_check :
        LET c == last_check[key] IN
        /\ ~c.allowed
             => /\ HasRetryAfter(c.headers)
                /\ IntOf(c.headers["Retry-After"])
                     = Ceil(Unit - c.refilled, TicksPerSecond * requests_per_minute)
        /\ (requests_per_minute = DefaultRequestsPerMinute /\ burst_size = DefaultBurstSize
                /\ c.n = DefaultBurstSize + 1)
             => ~c.allowed /\ c.headers["Retry-After"] = <<"1">>

\* the request of slot s, when there is one
InFlight(s) == request[s] # None
Req(s) == request[s][1]

\* a result that came up from downstream, not from the limiter
FromDownstream(r) ==
    \/ r.kind = "exception"
    \/ r.kind = "response" /\ r.by # "RateLimitMiddleware"

\* C5: a request to /health or /v1/health is passed downstream and is never
\* answered with the limiter's 429, whatever the bucket of its key holds.
C5_HealthNeverLimited ==
    \A s \in Slots :
        (InFlight(s) /\ Req(s).path \in {HealthPath, V1HealthPath} /\ pc[s] # "rate_limit")
            => /\ pc[s] = "downstream" \/ FromDownstream(result[s])
               /\ result[s].kind = "response" => result[s].status # TooManyRequests

\* a request to /health was answered by the handler while its key had no token
C5_Witness ==
    \E s \in Slots :
        /\ InFlight(s) /\ Req(s).path = HealthPath /\ pc[s] = "done"
        /\ result[s].status = OkStatus
        /\ burst_size >= 1
        /\ GetClientIp(Req(s)) \in DOMAIN last_check
        /\ ~last_check[GetClientIp(Req(s))].allowed
        /\ buckets[GetClientIp(Req(s))].last_update = now

C7_AlwaysStamped ==
    \A s \in Slots :
        pc[s] = "done"
            => /\ "X-Request-ID" \in DOMAIN result[s].headers
               /\ result[s].headers["X-Request-ID"] = state_request_id[s][1]

\* C10: a request the limiter rejected gets status 429, the headers
\* X-RateLimit-Limit = burst_size, X-RateLimit-Remaining = 0 and Retry-After, and
\* a body with error = RateLimitExceededError, detail and request_id.
C10_RejectionShape ==
    \A s \in Slots :
        (allowed[s] = Some(FALSE) /\ pc[s] \in {"request_id_exit", "done"})
            => /\ result[s].kind = "response"
               /\ result[s].status = TooManyRequests
               /\ {"X-RateLimit-Limit", "X-RateLimit-Remaining", "Retry-After"}
                     \subseteq DOMAIN result[s].headers
               /\ IntOf(result[s].headers["X-RateLimit-Limit"]) = burst_size
               /\ result[s].headers["X-RateLimit-Remaining"] = <<"0">>
               /\ DOMAIN result[s].body = {"error", "detail", "request_id"}
               /\ result[s].body.error = "RateLimitExceededError"

\* a rejected request has been answered
C10_Witness ==
    \E s \in Slots :
        /\ allowed[s] = Some(FALSE)
        /\ pc[s] = "done"
        /\ result[s].status = TooManyRequests
        /\ result[s].body.request_id = state_request_id[s]

\* the characters of a string
Chars(v) == { v[i] : i \in 1 .. Len(v) }

\* the first comma-separated entry of v: the prefix without a comma that ends v
\* or is followed by a comma
FirstCommaEntry(v) ==
    CHOOSE p \in { SubSeq(v, 1, k) : k \in 0 .. Len(v) } :
        /\ "," \notin Chars(p)
        /\ Len(p) = Len(v) \/ v[Len(p) + 1] = ","

\* v without the spaces before its first and after its last other character
Trimmed(v) ==
    LET solid == { i \in 1 .. Len(v) : v[i] # " " }
    IN  IF solid = {} THEN <<>>
        ELSE SubSeq(v, CHOOSE i \in solid : \A j \in solid : i <= j,
                       CHOOSE i \in solid : \A j \in solid : i >= j)

Present(req, name) == name \in DOMAIN req.headers /\ req.headers[name] # <<>>

\* the key C9 claims for a request
ClaimedKey(req) ==
    IF Present(req, "X-Forwarded-For")
    THEN Trimmed(FirstCommaEntry(req.headers["X-Forwarded-For"]))
    ELSE IF Present(req, "X-Real-IP") THEN req.headers["X-Real-IP"]
    ELSE IF req.client # None THEN req.client[1].host
    ELSE Unknown

\* C9: the key of a request is the first comma-separated entry of
\* X-Forwarded-For, trimmed, when that header is present and non-empty, otherwise
\* X-Real-IP when present and non-empty, otherwise the peer address when there is
\* one, otherwise "unknown"; the bucket of that key is the one charged, and
\* X-Forwarded-For "9.9.9.9, 10.0.0.1" gives the key 9.9.9.9.
C9_KeyPrecedence ==
    \A s \in Slots :
        client_ip[s] # None
            => /\ client_ip[s][1] = ClaimedKey(Req(s))
               /\ client_ip[s][1] \in DOMAIN buckets
               /\ ("X-Forwarded-For" \in DOMAIN Req(s).headers
                        /\ Req(s).headers["X-Forwarded-For"] = ForwardedB)
                    => client_ip[s][1] = ClientB

\* a request with X-Forwarded-For "9.9.9.9, 10.0.0.1", X-Real-IP 1.2.3.4 and the
\* peer 1.2.3.4 was charged to 9.9.9.9 and 1.2.3.4 has no bucket
C9_Witness ==
    \E s \in Slots :
        /\ client_ip[s] = Some(ClientB)
        /\ Req(s).headers = ("X-Forwarded-For" :> ForwardedB) @@ ("X-Real-IP" :> ClientA)
        /\ Req(s).client = Some([host |-> ClientA])
        /\ ClientA \notin DOMAIN buckets

\* C11: when the limiter is enabled, every response that leaves the pipeline
\* carries X-RateLimit-Limit and X-RateLimit-Remaining, whatever the path of the
\* request and whether it was admitted or rejected.
C11_RateLimitHeadersAlways ==
    \A s \in Slots :
        (enabled /\ pc[s] = "done")
            => {"X-RateLimit-Limit", "X-RateLimit-Remaining"} \subseteq DOMAIN result[s].headers

\* C11 over the responses dispatch returns after an admission check: the path is
\* not excluded and no exception left the middleware
C11_RateLimitHeadersWhenChecked ==
    \A s \in Slots :
        (enabled /\ pc[s] = "done" /\ Req(s).path \notin EXCLUDED_PATHS
                /\ result[s].by # "generic_exception_handler")
            => {"X-RateLimit-Limit", "X-RateLimit-Remaining"} \subseteq DOMAIN result[s].headers

\* C12: is_allowed returns the Retry-After key exactly when it returns
\* allowed = False, and a response that leaves the pipeline carries Retry-After
\* exactly when the limiter rejected its request.
C12_RetryAfterIffRejected ==
    /\ \A key \in DOMAIN last_check :
         HasRetryAfter(last_check[key].headers) <=> ~last_check[key].allowed
    /\ \A s \in Slots :
         pc[s] = "done"
            => (HasRetryAfter(result[s].headers) <=> allowed[s] = Some(FALSE))

\* a rejected request was answered with Retry-After after the same key had been
\* admitted without it
C12_Witness ==
    \E s \in Slots :
        /\ pc[s] = "done"
        /\ allowed[s] = Some(FALSE)
        /\ HasRetryAfter(result[s].headers)
        /\ last_check[client_ip[s][1]].prev # None
        /\ last_check[client_ip[s][1]].prev[1].allowed

RateLimitHeaders == {"X-RateLimit-Limit", "X-RateLimit-Remaining"}

\* C13: the middleware registered in the order CORS, RateLimit, RequestID runs
\* reversed. Inbound, the RequestID step has run when the admission check
\* starts, and the admission check has run and admitted the request when CORS
\* and the handler start; outbound, RateLimit has finished with the response
\* when RequestID stamps it, and nothing touches it afterwards.
C13_ReverseOrder ==
    \A s \in Slots :
        /\ pc[s] = "rate_limit"
             => /\ state_request_id[s] # None
                /\ allowed[s] = None
                /\ result[s] = NoResult
        /\ pc[s] = "downstream"
             => /\ state_request_id[s] # None
                /\ result[s] = NoResult
                /\ (enabled /\ Req(s).path \notin EXCLUDED_PATHS) => allowed[s] = Some(TRUE)
        /\ (pc[s] = "rate_limit_exit" /\ result[s].kind = "response")
             => DOMAIN result[s].headers = {}
        /\ (pc[s] = "request_id_exit" /\ result[s].kind = "response")
             => /\ REQUEST_ID_HEADER \notin DOMAIN result[s].headers
                /\ allowed[s] # None => RateLimitHeaders \subseteq DOMAIN result[s].headers
        /\ (pc[s] = "done" /\ result[s].by # "generic_exception_handler")
             => REQUEST_ID_HEADER \in DOMAIN result[s].headers

\* an admitted request is on its way out between the two middleware: the
\* limiter's headers are on the response, X-Request-ID is not yet
C13_Witness ==
    \E s \in Slots :
        /\ pc[s] = "request_id_exit"
        /\ allowed[s] = Some(TRUE)
        /\ result[s].kind = "response"
        /\ result[s].by = "handler"
        /\ RateLimitHeaders \subseteq DOMAIN result[s].headers
        /\ REQUEST_ID_HEADER \notin DOMAIN result[s].headers

\* C14: a request the limiter rejected is never passed downstream: from the
\* rejection on it is only on its way out through RequestIDMiddleware, and what
\* travels out is the 429 response RateLimitMiddleware built, never an exception
\* and never something downstream produced.
C14_RejectedNeverDownstream ==
    \A s \in Slots :
        allowed[s] = Some(FALSE)
            => /\ pc[s] \in {"request_id_exit", "done"}
               /\ result[s].kind = "response"
               /\ result[s].by = "RateLimitMiddleware"
               /\ result[s].status = TooManyRequests

\* a request has just been rejected: its 429 is at RequestIDMiddleware, on the
\* way out
C14_Witness ==
    \E s \in Slots :
        /\ allowed[s] = Some(FALSE)
        /\ pc[s] = "request_id_exit"
        /\ result[s].by = "RateLimitMiddleware"
        /\ burst_size >= 1

\* C15: with requests of one key interleaved and no time passing, every
\* admission check acts on the bucket as the checks before it left it: the k-th
\* admitted check leaves burst_size - k tokens, and no more than burst_size
\* checks are admitted.
C15_NoLostDebit ==
    \A key \in DOMAIN last_check :
        LET c == last_check[key] IN
        c.allowed
            => /\ buckets[key].tokens = (burst_size - c.n) * Unit
               /\ c.n <= burst_size

\* C15 where the burst is not empty: burst_size >= 1, and a rejected check
\* leaves the bucket empty
C15_NoLostDebitPositive ==
    \A key \in DOMAIN last_check :
        LET c == last_check[key] IN
        burst_size >= 1
            => /\ c.allowed => /\ buckets[key].tokens = (burst_size - c.n) * Unit
                               /\ c.n <= burst_size
               /\ ~c.allowed => buckets[key].tokens = 0 /\ c.n > burst_size

\* two requests of the key are in flight, both past the admission check, one
\* admitted with the last token and one rejected
C15_BothChecked ==
    /\ burst_size >= 1
    /\ \E s, t \in Slots :
         /\ s # t
         /\ allowed[s] = Some(TRUE) /\ pc[s] = "downstream"
         /\ allowed[t] = Some(FALSE) /\ pc[t] = "request_id_exit"
         /\ client_ip[s] = client_ip[t]

\* the positions of a request whose task is inside the with block of
\* RequestIDMiddleware.dispatch
InsideWith == {"rate_limit", "downstream", "rate_limit_exit", "request_id_exit"}

\* C16: with requests interleaved at their awaits, a log record emitted while a
\* request is handled, before or after a suspension, is given the request id of
\* that request, and not the differing id of another request in flight.
C16_LogsCarryOwnId ==
    \A s \in Slots :
        pc[s] \in InsideWith
            => /\ LogExtra(s) = state_request_id[s]
               /\ \A t \in Slots \ {s} :
                    (pc[t] \in InsideWith /\ state_request_id[t] # state_request_id[s])
                        => LogExtra(s) # state_request_id[t]

\* two requests with different ids are in flight, one resumed after its handler
\* returned and one about to run its handler, each with its own id in its logs
C16_Witness ==
    \E s, t \in Slots :
        /\ pc[s] = "rate_limit_exit"
        /\ pc[t] = "downstream"
        /\ state_request_id[s] # state_request_id[t]
        /\ LogExtra(s) = state_request_id[s]
        /\ LogExtra(t) = state_request_id[t]

\* C17: the logging context holds the request id while the request is inside
\* the with block and only then; it is back to what it was before, empty, once
\* dispatch was left: by returning the response of downstream or the limiter's
\* 429, by an exception raised downstream, or by cancellation.
C17_ContextScoped ==
    \A s \in Slots :
        /\ pc[s] \in InsideWith => log_context[s] = state_request_id[s]
        /\ pc[s] \notin InsideWith => log_context[s] = None /\ log_token[s] = None

\* dispatch was left by cancellation for one request and by an exception for
\* the other, and neither context holds an id any more
C17_Witness ==
    \E s, t \in Slots :
        /\ pc[s] = "cancelled"
        /\ pc[t] = "server_error"
        /\ state_request_id[s] # None /\ log_context[s] = None
        /\ state_request_id[t] # None /\ log_context[t] = None

\* the latest check of key read a clock value no later than the last refill of
\* its bucket: no time had passed since the check before
ZeroElapsed(key) ==
    /\ last_check[key].prev # None
    /\ buckets[key].last_update <= last_check[key].prev[1].time

\* C18: after a check that read a clock value equal to or earlier than the
\* bucket's last refill time, the bucket's tokens are not negative, and neither
\* is the Retry-After the check returned.
C18_NothingNegative ==
    \A key \in DOMAIN last_check :
        ZeroElapsed(key)
            => /\ buckets[key].tokens >= 0
               /\ HasRetryAfter(last_check[key].headers)
                    => IntOf(last_check[key].headers["Retry-After"]) >= 0

\* C18 where the burst is not empty: burst_size >= 1
C18_NothingNegativePositive ==
    \A key \in DOMAIN last_check :
        (burst_size >= 1 /\ ZeroElapsed(key))
            => /\ buckets[key].tokens >= 0
               /\ HasRetryAfter(last_check[key].headers)
                    => IntOf(last_check[key].headers["Retry-After"]) >= 1

\* a check with no time passed was rejected with burst_size >= 1
C18_ZeroElapsedRejected ==
    \E key \in DOMAIN last_check :
        /\ burst_size >= 1
        /\ ZeroElapsed(key)
        /\ ~last_check[key].allowed

\* C19: in the application of get_app(), the request_id in the body of every
\* 429 of the limiter is a string, not null, and equals the X-Request-ID header
\* of that response.
C19_RejectionBodyHasId ==
    \A s \in Slots :
        (pc[s] = "done" /\ result[s].kind = "response" /\ result[s].by = "RateLimitMiddleware")
            => /\ result[s].body.request_id # None
               /\ result[s].body.request_id[1] # <<>>
               /\ REQUEST_ID_HEADER \in DOMAIN result[s].headers
               /\ result[s].body.request_id[1] = result[s].headers[REQUEST_ID_HEADER]

\* a request that came with an empty X-Request-ID was rejected, and the body and
\* the header of its 429 carry the same generated id
C19_Witness ==
    \E s \in Slots :
        /\ pc[s] = "done"
        /\ result[s].by = "RateLimitMiddleware"
        /\ REQUEST_ID_HEADER \in DOMAIN Req(s).headers
        /\ Req(s).headers[REQUEST_ID_HEADER] = <<>>
        /\ result[s].body.request_id \in { Some(u) : u \in Uuids }
        /\ result[s].headers[REQUEST_ID_HEADER] = result[s].body.request_id[1]

\* C20: after any sequence of saves, a lookup by email with a query that equals
\* the email of a stored user when letter case is ignored returns that user.
C20_LookupIgnoresCase ==
    (returned # None /\ returned.op = "get_user_by_email")
        => \A u \in users :
             StrLower(u.email) = StrLower(returned.arg) => returned.value = Some(u)

\* what get_by_email does: a query whose lower-cased form is the stored email,
\* letter for letter, returns the user
C20_LookupOfLowerCased ==
    (returned # None /\ returned.op = "get_user_by_email")
        => \A u \in users :
             u.email = StrLower(returned.arg) => returned.value = Some(u)

\* a user saved with a lower-case email was found with the query in upper case
C20_FoundInUpperCase ==
    /\ returned # None
    /\ returned.op = "get_user_by_email"
    /\ returned.arg = <<"A", "@", "X">>
    /\ returned.value # None
    /\ returned.value[1].email = <<"a", "@", "x">>

\* C21: when service.create_user returns, the handler create_user commits the
\* session exactly once and never rolls back; when it raises IntegrityError the
\* handler rolls back exactly once, never commits, and raises HTTP 409 if the
\* cause of the error's orig is a unique violation and HTTP 500 otherwise.
C21_CommitOrRollback ==
    (returned # None /\ returned.op = "create_user")
        => /\ returned.outcome.kind = "ok"
                => /\ Count(returned.calls, "commit") = 1
                   /\ Count(returned.calls, "rollback") = 0
                   /\ ~returned.raised
                   /\ returned.value[1] \in users
           /\ returned.outcome.kind = "IntegrityError"
                => /\ Count(returned.calls, "rollback") = 1
                   /\ Count(returned.calls, "commit") = 0
                   /\ returned.raised
                   /\ returned.status
                        = IF returned.outcome.orig
                               = Some([cause |-> "UniqueViolationError"])
                          THEN Some(ConflictStatus)
                          ELSE Some(InternalServerErrorStatus)

\* a second POST with an email already in the table was rolled back and
\* answered 409
C21_Witness ==
    /\ returned # None
    /\ returned.op = "create_user"
    /\ returned.status = Some(ConflictStatus)
    /\ returned.calls = <<"rollback">>
    /\ \E u \in users : u.email = returned.arg

\* the number of checks of key admitted at the times t0 .. t1
AdmittedWithin(key, t0, t1) ==
    Cardinality({ i \in 1 .. Len(admissions[key]) :
                    t0 <= admissions[key][i] /\ admissions[key][i] <= t1 })

\* C22: for every key and every interval of T seconds, the number of checks of
\* the key admitted within the interval is at most burst_size + T * rate.
C22_WindowBound ==
    \A key \in DOMAIN admissions :
        \A t0 \in 0 .. MaxTime, t1 \in 0 .. MaxTime :
            t0 <= t1
                => AdmittedWithin(key, t0, t1) * Unit
                     <= burst_size * Unit + (t1 - t0) * requests_per_minute

\* C22 where the burst is not empty: burst_size >= 1
C22_WindowBoundPositive ==
    \A key \in DOMAIN admissions :
        \A t0 \in 0 .. MaxTime, t1 \in 0 .. MaxTime :
            (burst_size >= 1 /\ t0 <= t1)
                => AdmittedWithin(key, t0, t1) * Unit
                     <= burst_size * Unit + (t1 - t0) * requests_per_minute

\* a key has used its whole allowance over the longest interval: burst_size
\* and everything refilled since
C22_WindowFull ==
    \E key \in DOMAIN admissions :
        /\ burst_size >= 1
        /\ AdmittedWithin(key, 0, MaxTime) * Unit
             = burst_size * Unit + MaxTime * requests_per_minute

\* C23: the keys of the bucket map are the keys that were checked; a step
\* removes no bucket, and a bucket it adds holds tokens = burst_size - 1 and
\* last_update = now.
C23_BucketLifecycle ==
    [][/\ DOMAIN buckets \subseteq DOMAIN buckets'
       /\ DOMAIN buckets' = DOMAIN last_check'
       /\ \A key \in DOMAIN buckets' \ DOMAIN buckets :
            /\ last_check'[key].prev = None
            /\ buckets'[key].tokens = (burst_size - 1) * Unit
            /\ buckets'[key].last_update = now]_vars

\* the bucket of a second key has just been created, later than the first, which
\* is still there after several checks
C23_Witness ==
    \E k1, k2 \in DOMAIN buckets :
        /\ k1 # k2
        /\ last_check[k1].prev # None
        /\ buckets[k1].last_update < now
        /\ last_check[k2].prev = None
        /\ buckets[k2] = [tokens |-> (burst_size - 1) * Unit, last_update |-> now]

\* the request of slot s came without X-Request-ID or with an empty one
NoInboundId(s) ==
    \/ REQUEST_ID_HEADER \notin DOMAIN Req(s).headers
    \/ Req(s).headers[REQUEST_ID_HEADER] = <<>>

C25_OtherKeysUntouched ==
    [][\A a \in Keys :
         (a \in DOMAIN last_check' /\ (a \notin DOMAIN last_check
                                          \/ last_check'[a] # last_check[a]))
            => /\ \A b \in DOMAIN buckets \ {a} :
                    b \in DOMAIN buckets' /\ buckets'[b] = buckets[b]
               /\ DOMAIN buckets' \subseteq DOMAIN buckets \cup {a}
               /\ last_check'[a].allowed
                    = (a \notin DOMAIN buckets \/ HasToken(Refill(buckets[a], now)))]_vars

\* the second key was just rejected while the first, checked earlier, still has
\* the token it had
C25_Witness ==
    \E a, b \in DOMAIN buckets :
        /\ a # b
        /\ buckets[b].last_update < buckets[a].last_update
        /\ buckets[b].tokens >= Unit
        /\ ~last_check[a].allowed

\* C26: while a request to /health or /v1/health is handled, from its arrival
\* to its response, no step changes the limiter: no bucket is created, no
\* token debited and no last_update written.
C26_HealthLeavesLimiter ==
    [][\A s \in OneAtATime :
         ((InFlight(s) /\ Req(s).path \in {HealthPath, V1HealthPath})
            \/ (request'[s] # None /\ request'[s][1].path \in {HealthPath, V1HealthPath}))
            => (buckets' = buckets /\ last_check' = last_check)]_vars

\* with the limiter enabled, a request to /health was answered and its key has
\* no bucket
C26_Witness ==
    \E s \in Slots :
        /\ enabled
        /\ InFlight(s) /\ Req(s).path = HealthPath /\ pc[s] = "done"
        /\ GetClientIp(Req(s)) \notin DOMAIN buckets

\* this step is a check of key
CheckedNow(key) ==
    /\ key \in DOMAIN last_check'
    /\ key \in DOMAIN last_check
         => last_check'[key] # last_check[key] \/ buckets'[key] # buckets[key]

\* the latest check of key was a rejection and the clock reads the time of that
\* check plus its Retry-After seconds
RetryAfterElapsed(key) ==
    /\ ~last_check[key].allowed
    /\ now = buckets[key].last_update
               + IntOf(last_check[key].headers["Retry-After"]) * TicksPerSecond

\* C27 as claimed: a key rejected at time t with Retry-After = r, and not
\* checked in between, is admitted by its check at time t + r.
C27_RetryAfterSufficesAnyBurst ==
    [][\A key \in DOMAIN last_check :
         (RetryAfterElapsed(key) /\ CheckedNow(key)) => last_check'[key].allowed]_vars

\* C27, amended: when burst_size >= 1, a key rejected at time t with
\* Retry-After = r, and not checked in between, is admitted by its check at
\* time t + r.
C27_RetryAfterSuffices ==
    [][\A key \in DOMAIN last_check :
         (burst_size >= 1 /\ RetryAfterElapsed(key) /\ CheckedNow(key))
            => last_check'[key].allowed]_vars

\* with burst_size = 1 at 60 per minute, a key rejected at time 0, with
\* Retry-After = 2, was admitted by its next check two seconds later
C27_Witness ==
    \E key \in DOMAIN last_check :
        /\ burst_size = 1
        /\ requests_per_minute = DefaultRequestsPerMinute
        /\ last_check[key].prev = Some([time |-> 0, allowed |-> FALSE])
        /\ buckets[key].last_update = 2 * TicksPerSecond
        /\ last_check[key].allowed

\* the clock ticks one whole token takes to refill
TicksPerToken == Ceil(Unit, requests_per_minute)

\* C28: a rejected check of a key leaves the bucket's tokens at the refilled
\* value, never lower than before the check; and, with burst_size >= 1, a key
\* that keeps being checked after a rejection is eventually admitted once the
\* clock can still advance by the time one token takes.
C28_RejectionDebitsNothing ==
    /\ [][\A key \in DOMAIN buckets :
            (CheckedNow(key) /\ ~last_check'[key].allowed)
               => /\ buckets'[key].tokens
                       = Min(burst_size * Unit,
                             buckets[key].tokens
                                + (now - buckets[key].last_update) * requests_per_minute)
                  /\ buckets'[key].tokens >= buckets[key].tokens]_vars
    /\ \A key \in Keys :
          (/\ burst_size >= 1
           /\ key \in DOMAIN last_check
           /\ ~last_check[key].allowed
           /\ now + TicksPerToken <= MaxTime) ~> (key \in DOMAIN last_check
                                                   /\ last_check[key].allowed)

\* at 60 per minute a rejected key was admitted one tick later, by the part
\* of a token the rejection left in its bucket and the refill of that tick
C28_Witness ==
    \E key \in DOMAIN last_check :
        /\ burst_size >= 1
        /\ last_check[key].allowed
        /\ last_check[key].prev # None
        /\ ~last_check[key].prev[1].allowed
        /\ last_check[key].refilled = Unit
        /\ requests_per_minute = DefaultRequestsPerMinute
        /\ buckets[key].last_update = last_check[key].prev[1].time + 1

\* the step takes the request of slot s from the limiter to what is downstream
PassedDownstream(s) ==
    /\ pc[s] = "rate_limit"
    /\ pc'[s] = "downstream"
    /\ Req(s).path \notin EXCLUDED_PATHS

\* the step is an admission check made for the request of some slot
AdmissionCheckStep ==
    \E s \in Slots :
        /\ pc[s] = "rate_limit"
        /\ pc'[s] \in {"downstream", "rate_limit_exit"}
        /\ Req(s).path \notin EXCLUDED_PATHS

\* C29: the step that passes an admitted request downstream has already taken
\* its token from the bucket of its key, and no bucket changes except by an
\* admission check, which never adds a token while the clock stands: not when
\* the handler raises, and not when the request is aborted.
C29_DebitNeverRefunded ==
    [][/\ \A s \in Slots :
             PassedDownstream(s)
                => LET key == client_ip'[s][1] IN
                   /\ allowed'[s] = Some(TRUE)
                   /\ buckets'[key].tokens
                        = IF key \in DOMAIN buckets THEN buckets[key].tokens - Unit
                          ELSE (burst_size - 1) * Unit
       /\ buckets' # buckets => AdmissionCheckStep
       /\ \A key \in DOMAIN buckets :
             /\ key \in DOMAIN buckets'
             /\ buckets'[key].tokens <= buckets[key].tokens]_vars

\* with burst_size = 2, one admitted request was aborted and the handler of
\* another raised, answered with status 500, and the bucket is without both tokens
C29_Witness ==
    /\ burst_size = 2
    /\ \E s, t \in Slots :
          /\ pc[s] = "cancelled"
          /\ allowed[s] = Some(TRUE)
          /\ pc[t] = "done"
          /\ allowed[t] = Some(TRUE)
          /\ result[t].status = InternalServerErrorStatus
          /\ client_ip[s] = client_ip[t]
          /\ buckets[client_ip[s][1]].tokens = 0

\* C30: every admitted check, the first of an unseen key included, finds at
\* least one whole token before its debit, and the checks admitted for one key
\* with zero elapsed time number at most burst_size, for every burst_size >= 0.
C30_AdmittedHasToken ==
    \A key \in DOMAIN last_check :
        last_check[key].allowed
           => /\ last_check[key].refilled >= Unit
              /\ last_check[key].n > 0 => last_check[key].n <= burst_size

\* C30 where the burst is not empty: burst_size >= 1
C30_AdmittedHasTokenPositive ==
    burst_size >= 1 => C30_AdmittedHasToken

\* with burst_size >= 1, the last check of an immediate burst of burst_size
\* checks was admitted
C30_BurstAdmitted ==
    \E key \in DOMAIN last_check :
        /\ burst_size >= 1
        /\ last_check[key].allowed
        /\ last_check[key].n = burst_size

====
